---- MODULE Spec2Model ----
(***************************************************************************)
(* A model of src/src/pyedb/ic/gds_data.py: the CellShapes bucket, the     *)
(* CellData name property, the ICLayerData identity setters that write     *)
(* through to the layout engine's layer-info records, and the lazy shape   *)
(* classification behind ICLayerData.shapes.                               *)
(*                                                                         *)
(* The layout engine (klayout) is the program's environment.  It is        *)
(* modelled by the state it holds: a table of layer-info records, indexed  *)
(* by layer slot, and a list of cells, each a name and the list of its     *)
(* shapes.                                                                 *)
(***************************************************************************)
EXTENDS Integers, Sequences, FiniteSets, TLC

\* ------------------------------------------------------------- bounds
\* cells the engine enumerates
MaxCells == 2
\* shapes in the whole layout
MaxShapes == 2
\* reads of ICLayerData.shapes
MaxReads == 2
\* layer slots of the engine are 0..MaxIndex
MaxIndex == 1
\* length of each list of a hand-built CellShapes
MaxLen == 1
\* assignments to CellData.name
MaxAssign == 2

\* ------------------------------------------------------ Python values
\* A value passed to a setter: its type and its payload.
PyStr(x) == [t |-> "str", s |-> x, i |-> 0]
PyInt(x) == [t |-> "int", s |-> "", i |-> x]
PyNone == [t |-> "NoneType", s |-> "", i |-> 0]

LayerNames == {"M1", "M2"}
CellNames == {"TOP", "A"}
Slots == 0..MaxIndex

DataTypes == {0, 1}

\* the values each setter is tried with: the accepted type and others
NameValues == {PyStr(x) : x \in LayerNames} \cup {PyInt(0), PyNone}
IndexValues == {PyInt(x) : x \in Slots} \cup {PyStr("M1"), PyNone}
DataTypeValues == {PyInt(x) : x \in DataTypes} \cup {PyStr("M1"), PyNone}
CellNameValues == {PyStr(x) : x \in CellNames} \cup {PyInt(0), PyNone}

isinstance(value, type) == value.t = type

SeqsUpTo(S, n) == UNION {[1..k -> S] : k \in 0..n}

\* ------------------------------------------------------------ strings
\* A string is the sequence of its characters, so that lower() and the
\* substring test `in` are computed, not assumed.
UpperCase ==
    <<"A", "B", "C", "D", "E", "F", "G", "H", "I", "J", "K", "L", "M",
      "N", "O", "P", "Q", "R", "S", "T", "U", "V", "W", "X", "Y", "Z">>
LowerCase ==
    <<"a", "b", "c", "d", "e", "f", "g", "h", "i", "j", "k", "l", "m",
      "n", "o", "p", "q", "r", "s", "t", "u", "v", "w", "x", "y", "z">>

lower_char(c) ==
    IF \E k \in 1..Len(UpperCase) : UpperCase[k] = c
    THEN LowerCase[CHOOSE k \in 1..Len(UpperCase) : UpperCase[k] = c]
    ELSE c

\* str.lower()
lower(s) == [k \in 1..Len(s) |-> lower_char(s[k])]

\* sub in s
contains(sub, s) ==
    \E k \in 0..(Len(s) - Len(sub)) : \A j \in 1..Len(sub) : s[k + j] = sub[j]

PIN == <<"p", "i", "n">>
NET == <<"n", "e", "t">>
DRAWING == <<"d", "r", "a", "w", "i", "n", "g">>

\* purposes an ICLayerData is constructed with
Purposes ==
    { <<"P", "i", "n">>,
      <<"N", "E", "T">>,
      <<"d", "r", "a", "w", "i", "n", "g">>,
      <<"P", "i", "n", "-", "N", "e", "t", "-", "D", "r", "a", "w", "i", "n", "g">>,
      <<"m", "e", "t", "a", "l">> }

\* ------------------------------------------------------------- layout
\* A shape of the engine: its kind, the (layer, datatype) it is on, and the
\* corners of its box.  The kind predicates of the engine are exclusive.
Sh(kind, layer, datatype, p1, p2) ==
    [kind |-> kind, layer |-> layer, datatype |-> datatype, p1 |-> p1, p2 |-> p2]

\* the shapes layouts are built from
ShapePool ==
    { Sh("polygon", 5, 0, <<0, 0>>, <<0, 0>>),
      Sh("box", 5, 0, <<0, 0>>, <<10, 10>>),
      Sh("box", 5, 0, <<0, 2>>, <<4, 8>>),
      Sh("path", 5, 0, <<0, 0>>, <<0, 0>>),
      Sh("text", 5, 0, <<0, 0>>, <<0, 0>>),
      Sh("box", 5, 1, <<2, 2>>, <<6, 4>>) }

CellsWith(budget) == [name : CellNames, shapes : SeqsUpTo(ShapePool, budget)]

RECURSIVE LayoutsOf(_, _)
\* the layouts of n cells holding at most `budget` shapes in all
LayoutsOf(n, budget) ==
    IF n = 0 THEN {<<>>}
    ELSE UNION { { <<c>> \o rest : rest \in LayoutsOf(n - 1, budget - Len(c.shapes)) }
                 : c \in CellsWith(budget) }

\* Nothing in the program reads a particular name: the first cell is "TOP".
FirstCellsWith(budget) == [name : {"TOP"}, shapes : SeqsUpTo(ShapePool, budget)]

LayoutsFromTop(n, budget) ==
    IF n = 0 THEN {<<>>}
    ELSE UNION { { <<c>> \o rest : rest \in LayoutsOf(n - 1, budget - Len(c.shapes)) }
                 : c \in FirstCellsWith(budget) }

Layouts == UNION {LayoutsFromTop(n, MaxShapes) : n \in 0..MaxCells}

VARIABLES
    \* ICLayerData
    name, index, data_type, purpose, skip_labels,
    shapes,          \* self._shapes: cell name -> the CellShapes stored (its cell's position)
    shapes_id,       \* which dict object self._shapes is (0: the constructor's)
    \* the engine
    info,            \* layer slot -> layer-info record
    cells,           \* the cells each_cell() enumerates, in order
    each_cell_calls, \* how often each_cell() was called
    \* the CellShapes objects the last _update_shapes constructed, one per cell
    cell_shapes,
    \* the dict objects the reads of `shapes` returned
    returned,
    \* the last setter called on ICLayerData, and the state before it
    last_op, pre,
    \* a CellShapes built by hand, and what is_empty returned for it
    bucket, is_empty_result,
    \* CellData: self._name, the constructor's name, the values assigned
    cd_name, cd_ctor, cd_assigned

layerVars == <<name, index, data_type, info, last_op, pre>>
shapeVars == <<purpose, skip_labels, shapes, shapes_id, each_cell_calls, cell_shapes, returned>>
bucketVars == <<bucket, is_empty_result>>
cellVars == <<cd_name, cd_ctor, cd_assigned>>
vars == <<layerVars, shapeVars, bucketVars, cellVars, cells>>

\* --------------------------------------------------------- CellShapes
CellShapes(polygons, paths, labels, boxes, pins, nets) ==
    [polygons |-> polygons, paths |-> paths, labels |-> labels,
     boxes |-> boxes, pins |-> pins, nets |-> nets]

\* bool(list)
truthy(list) == Len(list) > 0

\* is_empty with the last test left out
is_empty_no_nets(self) ==
    IF truthy(self.polygons) THEN FALSE
    ELSE IF truthy(self.paths) THEN FALSE
    ELSE IF truthy(self.labels) THEN FALSE
    ELSE IF truthy(self.boxes) THEN FALSE
    ELSE IF truthy(self.pins) THEN FALSE
    ELSE TRUE

is_empty(self) ==
    IF truthy(self.polygons) THEN FALSE
    ELSE IF truthy(self.paths) THEN FALSE
    ELSE IF truthy(self.labels) THEN FALSE
    ELSE IF truthy(self.boxes) THEN FALSE
    ELSE IF truthy(self.pins) THEN FALSE
    ELSE IF truthy(self.nets) THEN FALSE
    ELSE TRUE

\* ------------------------------------------------------------- engine
\* klayout.get_info(index)
get_info(slot) == info[slot]

\* klayout.set_info(index, info)
set_info(slot, record) == [info EXCEPT ![slot] = record]

\* klayout.layer(index, datatype): the layer handle
layer(layer_number, datatype) == <<layer_number, datatype>>

\* A shape handle is <<cell position, position in the cell>>.
shape_of(ref) == cells[ref[1]].shapes[ref[2]]

\* int(x) of an int
int(x) == x

\* kcell.shapes(layer).each(): the cell's shapes on the layer, in order
each(kcell, lyr) ==
    SelectSeq([j \in 1..Len(cells[kcell].shapes) |-> <<kcell, j>>],
              LAMBDA ref : layer(shape_of(ref).layer, shape_of(ref).datatype) = lyr)

is_box(ref) == shape_of(ref).kind = "box"
is_polygon(ref) == shape_of(ref).kind = "polygon"
is_path(ref) == shape_of(ref).kind = "path"
is_text(ref) == shape_of(ref).kind = "text"

\* shape.dbox.center(): the midpoint of the box.  A coordinate is held as
\* twice its value, so that the half-integer midpoints are exact:
\* the center of (0,0)-(10,10) is <<10, 10>>, standing for [5.0, 5.0].
center(ref) ==
    <<shape_of(ref).p1[1] + shape_of(ref).p2[1], shape_of(ref).p1[2] + shape_of(ref).p2[2]>>

\* klayout.cell(name): the position of the cell of that name, 0 for None
cell(n) ==
    IF \E i \in 1..Len(cells) : cells[i].name = n
    THEN CHOOSE i \in 1..Len(cells) :
             cells[i].name = n /\ \A k \in 1..(i - 1) : cells[k].name # n
    ELSE 0

Map(f(_), s) == [k \in 1..Len(s) |-> f(s[k])]

\* -------------------------------------------- ICLayerData._update_shapes
in_purpose(word) == contains(word, lower(purpose))

\* pins_of without the is_box test
pins_of_any_shape(shape_list) ==
    IF in_purpose(PIN) THEN Map(center, shape_list) ELSE <<>>

\* the `if "pin" in self.purpose.lower()` loop
pins_of(shape_list) ==
    IF in_purpose(PIN) THEN Map(center, SelectSeq(shape_list, is_box)) ELSE <<>>

\* labels_of with the flag read the wrong way round
labels_of_inverted(shape_list) ==
    IF skip_labels THEN SelectSeq(shape_list, is_text) ELSE <<>>

\* the `if not self.skip_labels` loop
labels_of(shape_list) ==
    IF ~skip_labels THEN SelectSeq(shape_list, is_text) ELSE <<>>

\* nets_of as one more elif of the drawing chain
nets_of_unrecorded(shape_list) ==
    IF in_purpose(NET)
    THEN SelectSeq(shape_list,
                   LAMBDA ref : ~(in_purpose(DRAWING)
                                  /\ (is_polygon(ref) \/ is_box(ref) \/ is_path(ref))))
    ELSE <<>>

\* the `if "net" in self.purpose.lower()` loop
nets_of(shape_list) ==
    IF in_purpose(NET) THEN shape_list ELSE <<>>

\* polygons_of taking paths for polygons
polygons_of_with_paths(shape_list) ==
    IF in_purpose(DRAWING)
    THEN SelectSeq(shape_list, LAMBDA ref : is_polygon(ref) \/ is_path(ref))
    ELSE <<>>

\* the `if "drawing" in self.purpose.lower()` loop: if / elif / elif
polygons_of(shape_list) ==
    IF in_purpose(DRAWING) THEN SelectSeq(shape_list, is_polygon) ELSE <<>>

boxes_of(shape_list) ==
    IF in_purpose(DRAWING)
    THEN SelectSeq(shape_list, LAMBDA ref : ~is_polygon(ref) /\ is_box(ref))
    ELSE <<>>

paths_of(shape_list) ==
    IF in_purpose(DRAWING)
    THEN SelectSeq(shape_list, LAMBDA ref : ~is_polygon(ref) /\ ~is_box(ref) /\ is_path(ref))
    ELSE <<>>

\* kcell.shapes(self._klayout.layer(int(self.index), int(self.data_type)))
shape_list_of(kcell) == each(kcell, layer(int(index), int(data_type)))

\* the CellShapes one pass of the loop over top_cells constructs and fills
classify(kcell) ==
    CellShapes(polygons_of(shape_list_of(kcell)), paths_of(shape_list_of(kcell)),
               labels_of(shape_list_of(kcell)), boxes_of(shape_list_of(kcell)),
               pins_of(shape_list_of(kcell)), nets_of(shape_list_of(kcell)))

RECURSIVE store(_, _)
\* the loop's `if not kcell.name in self._shapes: self._shapes[kcell.name] = cell`,
\* from cell k on, d being self._shapes so far
store(k, d) ==
    IF k > Len(cells) THEN d
    ELSE store(k + 1, IF cells[k].name \in DOMAIN d THEN d ELSE d @@ (cells[k].name :> k))

_update_shapes ==
    /\ shapes_id' = each_cell_calls + 1
    /\ each_cell_calls' = each_cell_calls + 1
    /\ cell_shapes' = [k \in 1..Len(cells) |-> classify(k)]
    /\ shapes' = store(1, <<>>)

\* bool(dict)
truthy_dict(d) == DOMAIN d # {}

\* ICLayerData.shapes (the property)
shapes_getter ==
    /\ Len(returned) < MaxReads
    /\ IF ~truthy_dict(shapes)
       THEN _update_shapes
       ELSE UNCHANGED <<shapes, shapes_id, each_cell_calls, cell_shapes>>
    /\ returned' = Append(returned, shapes_id')
    /\ UNCHANGED <<purpose, skip_labels, cells, layerVars, bucketVars, cellVars>>

\* ------------------------------------------- ICLayerData identity setters
snapshot == [name |-> name, index |-> index, data_type |-> data_type, info |-> info]

\* name_setter without the isinstance test
name_setter_unchecked(value) ==
    /\ info' = set_info(index, [get_info(index) EXCEPT !.name = value.s])
    /\ name' = value.s
    /\ last_op' = [op |-> "name", value |-> value]
    /\ pre' = snapshot
    /\ UNCHANGED <<index, data_type, shapeVars, bucketVars, cellVars, cells>>

\* ICLayerData.name (the setter)
name_setter(value) ==
    /\ IF isinstance(value, "str")
       THEN /\ info' = set_info(index, [get_info(index) EXCEPT !.name = value.s])
            /\ name' = value.s
       ELSE UNCHANGED <<info, name>>
    /\ last_op' = [op |-> "name", value |-> value]
    /\ pre' = snapshot
    /\ UNCHANGED <<index, data_type, shapeVars, bucketVars, cellVars, cells>>

\* ICLayerData.index (the setter)
index_setter(value) ==
    /\ IF isinstance(value, "int")
       THEN /\ info' = set_info(index, [get_info(index) EXCEPT !.layer = value.i])
            /\ index' = value.i
       ELSE UNCHANGED <<info, index>>
    /\ last_op' = [op |-> "index", value |-> value]
    /\ pre' = snapshot
    /\ UNCHANGED <<name, data_type, shapeVars, bucketVars, cellVars, cells>>

\* ICLayerData.data_type (the setter)
data_type_setter(value) ==
    /\ IF isinstance(value, "int")
       THEN /\ info' = set_info(index, [get_info(index) EXCEPT !.data_type = value.i])
            /\ data_type' = value.i
       ELSE UNCHANGED <<info, data_type>>
    /\ last_op' = [op |-> "data_type", value |-> value]
    /\ pre' = snapshot
    /\ UNCHANGED <<name, index, shapeVars, bucketVars, cellVars, cells>>

\* ---------------------------------------------------------- CellShapes
Items == {<<1, 1>>, <<1, 2>>}
Fields == {"polygons", "paths", "labels", "boxes", "pins", "nets"}

\* self.<field>.append(item) on the hand-built bucket
bucket_append(f, item) ==
    /\ Len(bucket[f]) < MaxLen
    /\ bucket' = [bucket EXCEPT ![f] = Append(@, item)]
    /\ is_empty_result' = "unread"
    /\ UNCHANGED <<layerVars, shapeVars, cellVars, cells>>

\* a read of CellShapes.is_empty
is_empty_getter ==
    /\ is_empty_result' = IF is_empty(bucket) THEN "True" ELSE "False"
    /\ UNCHANGED <<bucket, layerVars, shapeVars, cellVars, cells>>

\* ------------------------------------------------------------ CellData
\* a name setter that assigns, as ICLayerData's does
cd_name_setter_assigns(value) ==
    /\ Len(cd_assigned) < MaxAssign
    /\ cd_name' = IF isinstance(value, "str") THEN value.s ELSE cd_name
    /\ cd_assigned' = Append(cd_assigned, value)
    /\ UNCHANGED <<cd_ctor, layerVars, shapeVars, bucketVars, cells>>

\* CellData.name (the setter): `if isinstance(value, str): pass`
cd_name_setter(value) ==
    /\ Len(cd_assigned) < MaxAssign
    /\ cd_name' = cd_name
    /\ cd_assigned' = Append(cd_assigned, value)
    /\ UNCHANGED <<cd_ctor, layerVars, shapeVars, bucketVars, cells>>

\* CellData.kcell: self._klayout.cell(self.name)
kcell == cell(cd_name)

\* ------------------------------------------------------ specifications
InfoRecords == [name : LayerNames, layer : Slots, data_type : DataTypes]

\* ICLayerData(klayout, name, index, data_type, purpose, skip_labels) not yet used
LayerIdle ==
    /\ name = "M1" /\ index = 5 /\ data_type = 0
    /\ info = [s \in Slots |-> [name |-> "M1", layer |-> s, data_type |-> 0]]
    /\ last_op = [op |-> "init", value |-> PyNone]
    /\ pre = snapshot

ShapesIdle ==
    /\ purpose = <<"m", "e", "t", "a", "l">> /\ skip_labels = TRUE
    /\ shapes = <<>> /\ shapes_id = 0 /\ each_cell_calls = 0
    /\ cell_shapes = <<>> /\ returned = <<>>

BucketIdle ==
    /\ bucket = CellShapes(<<>>, <<>>, <<>>, <<>>, <<>>, <<>>)
    /\ is_empty_result = "unread"

CellIdle == cd_ctor = "TOP" /\ cd_name = "TOP" /\ cd_assigned = <<>>

\* The classification: an ICLayerData on layer 5/0 of any layout.
Init ==
    /\ cells \in Layouts
    /\ LayerIdle
    /\ purpose \in Purposes /\ skip_labels \in BOOLEAN
    /\ shapes = <<>> /\ shapes_id = 0 /\ each_cell_calls = 0
    /\ cell_shapes = <<>> /\ returned = <<>>
    /\ BucketIdle /\ CellIdle

Next == shapes_getter

Spec == Init /\ [][Next]_vars

\* The identity setters: an ICLayerData made from the record of its slot.
InitInfo ==
    /\ cells = <<>>
    /\ info \in [Slots -> InfoRecords]
    /\ index \in Slots
    /\ info[index].layer = index
    /\ name = info[index].name
    /\ data_type = info[index].data_type
    /\ last_op = [op |-> "init", value |-> PyNone]
    /\ pre = snapshot
    /\ ShapesIdle /\ BucketIdle /\ CellIdle

NextInfo ==
    \/ \E value \in NameValues : name_setter(value)
    \/ \E value \in IndexValues : index_setter(value)
    \/ \E value \in DataTypeValues : data_type_setter(value)

SpecInfo == InitInfo /\ [][NextInfo]_vars

\* CellShapes built by hand.
InitBucket ==
    /\ cells = <<>>
    /\ bucket \in [Fields -> SeqsUpTo(Items, MaxLen)]
    /\ is_empty_result = "unread"
    /\ LayerIdle /\ ShapesIdle /\ CellIdle

NextBucket ==
    \/ \E f \in Fields, item \in Items : bucket_append(f, item)
    \/ is_empty_getter

SpecBucket == InitBucket /\ [][NextBucket]_vars

\* CellData(klayout, name) over the cells of a layout.
InitCell ==
    /\ cells \in UNION {LayoutsOf(n, 0) : n \in 0..MaxCells}
    /\ cd_ctor \in CellNames
    /\ cd_name = cd_ctor
    /\ cd_assigned = <<>>
    /\ LayerIdle /\ ShapesIdle /\ BucketIdle

NextCell == \E value \in CellNameValues : cd_name_setter(value)

SpecCell == InitCell /\ [][NextCell]_vars

\* ============================================================== claims
\* What the claims speak of, read off the layout itself.
Classified == each_cell_calls >= 1
CellIds == 1..Len(cells)

\* the positions, in cell i, of the shapes on this ICLayerData's layer
OnLayer(i) ==
    {j \in 1..Len(cells[i].shapes) :
        cells[i].shapes[j].layer = index /\ cells[i].shapes[j].datatype = data_type}

KindOf(i, j) == cells[i].shapes[j].kind
Count(seq, x) == Cardinality({k \in 1..Len(seq) : seq[k] = x})
InSeq(seq, x) == \E k \in 1..Len(seq) : seq[k] = x

\* the purposes of Purposes that contain each word, whatever the case
PinPurposes ==
    { <<"P", "i", "n">>,
      <<"P", "i", "n", "-", "N", "e", "t", "-", "D", "r", "a", "w", "i", "n", "g">> }
NetPurposes ==
    { <<"N", "E", "T">>,
      <<"P", "i", "n", "-", "N", "e", "t", "-", "D", "r", "a", "w", "i", "n", "g">> }
DrawingPurposes ==
    { <<"d", "r", "a", "w", "i", "n", "g">>,
      <<"P", "i", "n", "-", "N", "e", "t", "-", "D", "r", "a", "w", "i", "n", "g">> }

\* C1: over any layout, the empty one included, the classification runs
\* exactly once, on the first read of `shapes`, and every read returns the
\* same mapping object.
C1_ClassifiedOnce ==
    Len(returned) >= 1 =>
        /\ each_cell_calls = 1
        /\ \A k \in 1..Len(returned) : returned[k] = returned[1]

\* C2: after any accepted assignments to name, index and data_type, the
\* engine's record read with get_info(self.index) carries the local name,
\* index and data_type.
C2_InSync ==
    /\ info[index].name = name
    /\ info[index].layer = index
    /\ info[index].data_type = data_type

\* C3: assigning a non-string to name changes neither the local fields nor
\* the engine's records; assigning a string sets the local name and the name
\* of the record of this layer's slot, and nothing else.
C3_NameSetter ==
    last_op.op = "name" =>
        /\ index = pre.index
        /\ data_type = pre.data_type
        /\ IF last_op.value.t = "str"
           THEN /\ name = last_op.value.s
                /\ info[pre.index].name = last_op.value.s
                /\ info[pre.index].layer = pre.info[pre.index].layer
                /\ info[pre.index].data_type = pre.info[pre.index].data_type
                /\ \A s \in Slots \ {pre.index} : info[s] = pre.info[s]
           ELSE name = pre.name /\ info = pre.info

C3_Witness ==
    /\ last_op.op = "name"
    /\ last_op.value.t = "str"
    /\ last_op.value.s # pre.name
    /\ pre.info[pre.index].layer # pre.index

\* C4: under a purpose containing "drawing", the polygons, boxes and paths of
\* the CellShapes built for a cell hold only shapes of that cell on the layer;
\* each polygon, box and path of the cell on the layer is in exactly one of the
\* three lists, once, in the list of its kind; a shape of another kind is in
\* none.
C4_DrawingPartition ==
    (Classified /\ purpose \in DrawingPurposes) =>
        \A i \in CellIds :
            /\ \A f \in {"polygons", "boxes", "paths"} :
                   \A k \in 1..Len(cell_shapes[i][f]) :
                       /\ cell_shapes[i][f][k][1] = i
                       /\ cell_shapes[i][f][k][2] \in OnLayer(i)
            /\ \A j \in OnLayer(i) :
                   /\ Count(cell_shapes[i].polygons, <<i, j>>)
                          = (IF KindOf(i, j) = "polygon" THEN 1 ELSE 0)
                   /\ Count(cell_shapes[i].boxes, <<i, j>>)
                          = (IF KindOf(i, j) = "box" THEN 1 ELSE 0)
                   /\ Count(cell_shapes[i].paths, <<i, j>>)
                          = (IF KindOf(i, j) = "path" THEN 1 ELSE 0)

C4_Witness ==
    /\ Classified
    /\ purpose = <<"P", "i", "n", "-", "N", "e", "t", "-", "D", "r", "a", "w", "i", "n", "g">>
    /\ \E i \in CellIds :
           /\ Len(cell_shapes[i].polygons) + Len(cell_shapes[i].boxes)
                  + Len(cell_shapes[i].paths) = 1
           /\ \E j \in OnLayer(i) : KindOf(i, j) = "text"

\* C5: under a purpose containing "pin", the pins of the CellShapes built for
\* a cell are two-element pairs, one per box of the cell on the layer, each the
\* center of its box (held doubled); no other shape gives an entry; one box
\* (0,0)-(10,10) in cell "TOP" under purpose "Pin" gives [[5.0, 5.0]].
C5_Pins ==
    (Classified /\ purpose \in PinPurposes) =>
        /\ \A i \in CellIds :
               /\ Len(cell_shapes[i].pins)
                      = Cardinality({j \in OnLayer(i) : KindOf(i, j) = "box"})
               /\ \A k \in 1..Len(cell_shapes[i].pins) :
                      /\ Len(cell_shapes[i].pins[k]) = 2
                      /\ Count(cell_shapes[i].pins, cell_shapes[i].pins[k])
                             = Cardinality(
                                 {j \in OnLayer(i) :
                                     /\ KindOf(i, j) = "box"
                                     /\ cells[i].shapes[j].p1[1] + cells[i].shapes[j].p2[1]
                                            = cell_shapes[i].pins[k][1]
                                     /\ cells[i].shapes[j].p1[2] + cells[i].shapes[j].p2[2]
                                            = cell_shapes[i].pins[k][2]})
        /\ (/\ purpose = <<"P", "i", "n">>
            /\ cells = <<[name |-> "TOP",
                          shapes |-> <<Sh("box", 5, 0, <<0, 0>>, <<10, 10>>)>>]>>)
               => cell_shapes[shapes["TOP"]].pins = <<<<2 * 5, 2 * 5>>>>

C5_Witness ==
    /\ Classified
    /\ purpose = <<"P", "i", "n">>
    /\ \E i \in CellIds :
           /\ cell_shapes[i].pins = <<<<4, 10>>>>
           /\ \E j \in OnLayer(i) : KindOf(i, j) = "polygon"

\* C6: after classification the keys of `shapes` are the names of the cells
\* enumerated, and the entry under a cell's name is the CellShapes classified
\* from that cell (empty when the cell has no shape on the layer), also when
\* two cells share a name.
C6_EntryPerCell ==
    Classified =>
        /\ DOMAIN shapes = {cells[i].name : i \in CellIds}
        /\ \A i \in CellIds :
               /\ cell_shapes[shapes[cells[i].name]] = cell_shapes[i]
               /\ OnLayer(i) = {} => is_empty(cell_shapes[shapes[cells[i].name]])

\* C7: with skip_labels false, each text of a cell on the layer is exactly
\* once in the labels of the CellShapes built for the cell, whatever the
\* purpose; with skip_labels true every labels list is empty.
C7_Labels ==
    Classified =>
        \A i \in CellIds :
            IF skip_labels
            THEN cell_shapes[i].labels = <<>>
            ELSE \A j \in OnLayer(i) :
                     KindOf(i, j) = "text" => Count(cell_shapes[i].labels, <<i, j>>) = 1

C7_Witness ==
    /\ Classified
    /\ ~skip_labels
    /\ purpose = <<"m", "e", "t", "a", "l">>
    /\ \E i \in CellIds : Len(cell_shapes[i].labels) = 2

\* C8: under a purpose containing "net", the nets of the CellShapes built for
\* a cell are the shapes of the cell on the layer, of any kind, each once, in
\* the order the engine enumerates them, whatever the other rules recorded;
\* under any other purpose nets is empty.
C8_Nets ==
    Classified =>
        \A i \in CellIds :
            IF purpose \in NetPurposes
            THEN /\ Len(cell_shapes[i].nets) = Cardinality(OnLayer(i))
                 /\ \A j \in OnLayer(i) : Count(cell_shapes[i].nets, <<i, j>>) = 1
                 /\ \A k \in 1..Len(cell_shapes[i].nets) :
                        /\ cell_shapes[i].nets[k][1] = i
                        /\ \A m \in 1..(k - 1) :
                               cell_shapes[i].nets[m][2] < cell_shapes[i].nets[k][2]
            ELSE cell_shapes[i].nets = <<>>

C8_Witness ==
    /\ Classified
    /\ purpose = <<"P", "i", "n", "-", "N", "e", "t", "-", "D", "r", "a", "w", "i", "n", "g">>
    /\ ~skip_labels
    /\ \E i \in CellIds :
           /\ Len(cell_shapes[i].nets) = 2
           /\ Len(cell_shapes[i].pins) = 1
           /\ Len(cell_shapes[i].labels) = 1

\* C9: is_empty is true exactly when all six lists of the bucket have length
\* zero.
C9_IsEmpty ==
    is_empty_result # "unread" =>
        (is_empty_result = "True" <=> \A f \in Fields : Len(bucket[f]) = 0)

C9_Witness ==
    /\ is_empty_result = "False"
    /\ Len(bucket.nets) = 1
    /\ \A f \in Fields \ {"nets"} : Len(bucket[f]) = 0

\* C10: whatever is assigned to CellData.name, the getter still returns the
\* constructor's name and kcell is still the cell of that name.
C10_NameImmutable ==
    /\ cd_name = cd_ctor
    /\ kcell = cell(cd_ctor)

C10_Witness ==
    /\ Len(cd_assigned) = 2
    /\ \E k \in 1..2 : cd_assigned[k].t = "str" /\ cd_assigned[k].s # cd_ctor
                       /\ cell(cd_assigned[k].s) # 0 /\ cell(cd_ctor) # 0
    /\ \E k \in 1..2 : cd_assigned[k].t # "str"

====
